---- MODULE Spec2Model ----
(***************************************************************************)
(* Model of becmd: the layered configuration resolver, the flat/nested     *)
(* key translator, the schema validator, the endpoint builder and the      *)
(* two-pass command line of becmd/__main__.py.                             *)
(*                                                                         *)
(* Representation.  A Python string is a sequence of atoms (indivisible    *)
(* substrings): "hosts.default" is <<"hosts", ".", "default">>.  The atoms *)
(* are chosen so that every split, prefix or replacement the code performs *)
(* falls on an atom boundary.  A Python value is a tagged record: a leaf   *)
(* [t |-> "str" | "bool" | "float", v |-> string] or a mapping             *)
(* [t |-> "map", m |-> function from strings to values].  A raised         *)
(* exception is the value Err.                                             *)
(***************************************************************************)
EXTENDS Integers, Sequences, FiniteSets, TLC

VARIABLES
    fpc,        \* position of a pure-function call: "call" or "ret"
    farg,       \* arguments of the pure-function call
    fres,       \* value returned (or Err) by the pure-function call
    pc,         \* position of main()
    argv,       \* sys.argv[1:]
    file,       \* the parsed configuration file ({} when there is none)
    iface,      \* the interface description the remote host serves
    opts,       \* opts of main(): the result of the latest parse_args
    opts1,      \* the result of the first parse pass
    cfg,        \* cfg of main()
    host,       \* host of main()
    parser,     \* the argument parser
    cache,      \* the installed response cache
    netCalls,   \* the network requests made so far, in order
    endpoint,   \* endpoint of main()
    exitCode,   \* exit status of the process, -1 while it runs
    failure     \* why the process ended

fvars == <<fpc, farg, fres>>
mvars == <<pc, argv, file, iface, opts, opts1, cfg, host, parser, cache, netCalls,
           endpoint, exitCode, failure>>
vars == <<fvars, mvars>>

---------------------------------------------------------------------------
(* Values *)

Err == [t |-> "error"]
Map(m) == [t |-> "map", m |-> m]
StrV(s) == [t |-> "str", v |-> s]
BoolV(b) == [t |-> "bool", v |-> <<IF b THEN "true" ELSE "false">>]
FloatV(s) == [t |-> "float", v |-> s]
IsMap(x) == x.t = "map"
EmptyFn == [k \in {} |-> k]
EmptyMap == Map(EmptyFn)

\* dict[k] = v
Put(f, k, v) == [x \in DOMAIN f \cup {k} |-> IF x = k THEN v ELSE f[x]]
\* dict.get(k, default)
Get(f, k, default) == IF k \in DOMAIN f THEN f[k] ELSE default

IsPrefix(p, s) == Len(p) <= Len(s) /\ SubSeq(s, 1, Len(p)) = p
IsStrictPrefix(p, s) == Len(p) < Len(s) /\ SubSeq(s, 1, Len(p)) = p

---------------------------------------------------------------------------
(* becmd/utils.py *)

SEPARATOR == "."

\* str.split(separator): the segments between the separator atoms; a string
\* with n separators has n + 1 segments, some possibly empty.
RECURSIVE SplitFrom(_, _, _)
SplitFrom(k, separator, cur) ==
    IF k = <<>> THEN <<cur>>
    ELSE IF Head(k) = separator
         THEN <<cur>> \o SplitFrom(Tail(k), separator, <<>>)
         ELSE SplitFrom(Tail(k), separator, Append(cur, Head(k)))

Split(k, separator) == SplitFrom(k, separator, <<>>)

\* The loop body of mapping_expand for one item with an unchanged child
\* lookup: every intermediate segment is replaced by a fresh mapping.
RECURSIVE InsertFresh(_, _, _)
InsertFresh(d, path, v) ==
    IF ~IsMap(d) THEN Err
    ELSE IF Len(path) = 1 THEN Map(Put(d.m, path[1], v))
    ELSE LET r == InsertFresh(EmptyMap, Tail(path), v)
         IN  IF r = Err THEN Err ELSE Map(Put(d.m, path[1], r))

\* The loop body of mapping_expand for one item: walk the intermediate
\* segments with d = d.setdefault(p, {}), then d[last] = v.  setdefault and
\* item assignment raise on a value that is no mapping.
RECURSIVE Insert(_, _, _)
Insert(d, path, v) ==
    IF ~IsMap(d) THEN Err
    ELSE IF Len(path) = 1 THEN Map(Put(d.m, path[1], v))
    ELSE LET child == Get(d.m, path[1], EmptyMap)
             r == Insert(child, Tail(path), v)
         IN  IF r = Err THEN Err ELSE Map(Put(d.m, path[1], r))

\* mapping_expand over the items of the flat mapping in insertion order.
RECURSIVE ExpandFrom(_, _, _)
ExpandFrom(root, items, separator) ==
    IF root = Err \/ items = <<>> THEN root
    ELSE ExpandFrom(Insert(root, Split(Head(items)[1], separator), Head(items)[2]),
                    Tail(items), separator)

mapping_expand(items, separator) == ExpandFrom(EmptyMap, items, separator)

\* mapping_update: mapping.__class__(update).items() raises when the target
\* is no mapping; a mapping value of update is merged into mapping.get(k, {}).
RECURSIVE mapping_update(_, _)
mapping_update(mapping, update) ==
    IF ~IsMap(mapping) THEN Err
    ELSE LET new(k) == IF IsMap(update.m[k])
                       THEN mapping_update(Get(mapping.m, k, EmptyMap), update.m[k])
                       ELSE update.m[k]
         IN  IF \E k \in DOMAIN update.m : new(k) = Err THEN Err
             ELSE Map([k \in DOMAIN mapping.m \cup DOMAIN update.m |->
                        IF k \in DOMAIN update.m THEN new(k) ELSE mapping.m[k]])

---------------------------------------------------------------------------
(* becmd/schema.py *)

K_becmd == <<"becmd">>
K_hosts == <<"hosts">>
K_logging == <<"logging">>
K_api_key == <<"api", "_", "key">>
K_host == <<"host">>
K_default == <<"default">>
K_insecure_tls == <<"insecure", "_", "tls">>
K_timeout == <<"timeout">>
K_use_cache == <<"use", "_", "cache">>
K_use_https == <<"use", "_", "https">>
K_config == <<"config">>
K_refresh == <<"refresh">>
K_datefmt == <<"datefmt">>
K_format == <<"format">>
K_level == <<"level">>
K_style == <<"style">>

CONFIG_RESERVED_KEYS == {K_becmd, K_hosts, K_logging}
LOGGING_LEVELS ==
    {<<"CRITICAL">>, <<"ERROR">>, <<"WARNING">>, <<"INFO">>, <<"DEBUG">>, <<"NOTSET">>}
LOGGING_STYLES == {<<"%">>, <<"{">>, <<"$">>}

\* RESERVED_KEYS_PATTERN, ^(?:(?!becmd|hosts|logging).+)$ : the negative
\* lookahead at the start refuses every string that starts with a reserved
\* key, and .+ refuses the empty string.
RESERVED_KEYS_PATTERN(s) ==
    s # <<>> /\ \A r \in CONFIG_RESERVED_KEYS : ~IsPrefix(r, s)

\* Atoms outside the character class [0-9A-Za-z._-].
HostnameUnsafe == {"/", " "}
\* ^[0-9A-Za-z\._-]+$
HOSTNAME_PATTERN(s) == s # <<>> /\ \A i \in 1..Len(s) : s[i] \notin HostnameUnsafe

PatternOk(pattern, s) ==
    CASE pattern = "reserved" -> RESERVED_KEYS_PATTERN(s)
      [] pattern = "hostname" -> HOSTNAME_PATTERN(s)
      [] OTHER -> TRUE

\* validx validators as data.
StrS(pattern, options) == [kind |-> "Str", pattern |-> pattern, options |-> options]
BoolS == [kind |-> "Bool"]
FloatS == [kind |-> "Float"]
DictS(schema, defaults, optional, dispose, extra) ==
    [kind |-> "Dict", schema |-> schema, defaults |-> defaults,
     optional |-> optional, dispose |-> dispose, extra |-> extra]

Good(v) == [v |-> v, errs |-> {}]
Bad(msg) == [v |-> Err, errs |-> {<<<<>>, msg>>}]

\* A validator applied to an object: the validated object with the defaults
\* of every absent key filled in, and the violations found, each with the
\* path of keys that leads to it.
RECURSIVE Call(_, _)
Call(s, obj) ==
    CASE s.kind = "Str" ->
            IF obj.t # "str" THEN Bad("type")
            ELSE IF ~PatternOk(s.pattern, obj.v) THEN Bad("pattern")
            ELSE IF s.options # {} /\ obj.v \notin s.options THEN Bad("options")
            ELSE Good(obj)
      [] s.kind = "Bool" -> IF obj.t = "bool" THEN Good(obj) ELSE Bad("type")
      [] s.kind = "Float" -> IF obj.t = "float" THEN Good(obj) ELSE Bad("type")
      [] s.kind = "Dict" ->
            IF ~IsMap(obj) THEN Bad("type")
            ELSE LET kept == DOMAIN obj.m \ s.dispose
                     known == kept \cap DOMAIN s.schema
                     extras == kept \ DOMAIN s.schema
                     absent == DOMAIN s.schema \ DOMAIN obj.m
                     sub == [k \in kept |->
                               IF k \in known THEN Call(s.schema[k], obj.m[k])
                               ELSE IF s.extra = <<>> THEN Bad("forbidden key")
                               ELSE LET kr == Call(s.extra[1], StrV(k))
                                        vr == Call(s.extra[2], obj.m[k])
                                    IN  [v |-> vr.v, errs |-> kr.errs \cup vr.errs]]
                     missing == {k \in absent :
                                   k \notin DOMAIN s.defaults /\ k \notin s.optional}
                     errs == {<<<<k>> \o e[1], e[2]>> : k \in missing, e \in {<<<<>>, "missing key">>}}
                             \cup UNION {{<<<<k>> \o e[1], e[2]>> : e \in sub[k].errs} : k \in kept}
                 IN  [v |-> Map([k \in kept \cup (absent \cap DOMAIN s.defaults) |->
                                   IF k \in kept THEN sub[k].v ELSE s.defaults[k]]),
                      errs |-> errs]

CommonHosts ==
    DictS((K_api_key :> StrS("none", {})) @@ (K_default :> StrS("reserved", {}))
            @@ (K_insecure_tls :> BoolS) @@ (K_timeout :> FloatS)
            @@ (K_use_cache :> BoolS) @@ (K_use_https :> BoolS),
          (K_insecure_tls :> BoolV(FALSE)) @@ (K_use_cache :> BoolV(TRUE))
            @@ (K_use_https :> BoolV(TRUE)),
          {K_api_key, K_default, K_insecure_tls, K_timeout, K_use_cache, K_use_https},
          {}, <<>>)

CommonLogging ==
    DictS((K_datefmt :> StrS("none", {})) @@ (K_format :> StrS("none", {}))
            @@ (K_level :> StrS("none", LOGGING_LEVELS))
            @@ (K_style :> StrS("none", LOGGING_STYLES)),
          (K_datefmt :> StrV(<<"%Y-%m-%d %H:%M:%S">>))
            @@ (K_format :> StrV(<<"%(levelname)s: %(message)s">>))
            @@ (K_level :> StrV(<<"ERROR">>)) @@ (K_style :> StrV(<<"%">>)),
          {K_datefmt, K_format, K_level, K_style},
          {}, <<>>)

Common ==
    DictS((K_config :> StrS("none", {})) @@ (K_hosts :> CommonHosts)
            @@ (K_logging :> CommonLogging) @@ (K_refresh :> BoolS),
          (K_hosts :> Call(CommonHosts, EmptyMap).v)
            @@ (K_logging :> Call(CommonLogging, EmptyMap).v),
          {K_config, K_hosts, K_logging, K_refresh},
          {}, <<>>)

\* defaults= of Host: timeout has no default.
HostDefaults ==
    (K_insecure_tls :> BoolV(FALSE)) @@ (K_use_cache :> BoolV(TRUE))
      @@ (K_use_https :> BoolV(TRUE))

HostSchema ==
    (K_api_key :> StrS("none", {})) @@ (K_host :> StrS("hostname", {}))
      @@ (K_insecure_tls :> BoolS) @@ (K_timeout :> FloatS)
      @@ (K_use_cache :> BoolS) @@ (K_use_https :> BoolS)

Host == DictS(HostSchema, HostDefaults, {}, {K_default}, <<>>)

\* Host.clone() with optional = ['api_key', 'host'].
HostOpt == DictS(HostSchema, HostDefaults, {K_api_key, K_host}, {K_default}, <<>>)

ConfigHost == DictS(EmptyFn, EmptyFn, {}, {}, <<StrS("reserved", {}), HostOpt>>)

Config ==
    DictS((K_becmd :> Common) @@ (K_hosts :> ConfigHost),
          (K_becmd :> Call(Common, EmptyMap).v) @@ (K_hosts :> Call(ConfigHost, EmptyMap).v),
          {K_becmd, K_hosts},
          {}, <<>>)

\* validate: the validated object, or ValidationError when the schema
\* reports any violation.
validate(schema, obj) ==
    LET out == Call(schema, obj)
    IN  IF out.errs # {} THEN Err ELSE out.v

---------------------------------------------------------------------------
(* argparse, as becmd/__main__.py and becmd/api.py use it *)

NoneV == [t |-> "none"]

K_api == <<"api">>
K_primary == <<"primary">>
K_secondary == <<"secondary">>
K_action == <<"action">>
K_params == <<"params">>
K_apikey == <<"apikey">>

\* '<a>.<b>'
Dotted(a, b) == a \o <<SEPARATOR>> \o b

\* An option of a parser.  kind is the argparse action: "store" takes one
\* argument, "store_true" and "store_false" take none, "exit" (version and
\* help) prints and exits with status 0.
Option(flags, dest, kind, type, choices, default) ==
    [flags |-> flags, dest |-> dest, kind |-> kind, type |-> type,
     choices |-> choices, default |-> default]

HelpOption == Option({<<"-h">>, <<"--", "help">>}, <<>>, "exit", "str", {}, NoneV)

NoSub == [present |-> FALSE, dest |-> <<>>, choices |-> EmptyFn]
Parser(options, sub) == [options |-> options, sub |-> sub]

\* get_argparser: the statically known flags, in the order they are added.
get_argparser ==
    Parser(<< HelpOption,
              Option({<<"-V">>, <<"--", "version">>}, <<>>, "exit", "str", {}, NoneV),
              Option({<<"-H">>, <<"--", "host">>}, Dotted(K_hosts, K_default),
                     "store", "str", {}, NoneV),
              Option({<<"-K">>, <<"--", "api", "-", "key">>}, Dotted(K_hosts, K_api_key),
                     "store", "str", {}, NoneV),
              Option({<<"-L">>, <<"--", "log", "-", "level">>}, Dotted(K_logging, K_level),
                     "store", "str", LOGGING_LEVELS, NoneV),
              Option({<<"-R">>, <<"--", "refresh">>}, K_refresh,
                     "store_true", "str", {}, BoolV(FALSE)),
              Option({<<"-W">>, <<"--", "wait">>}, Dotted(K_hosts, K_timeout),
                     "store", "float", {}, NoneV),
              Option({<<"-X">>, <<"--", "no", "-", "cache">>}, Dotted(K_hosts, K_use_cache),
                     "store_false", "str", {}, NoneV),
              Option({<<"-c">>, <<"--", "config">>}, K_config, "store", "str", {}, NoneV),
              Option({<<"--", "no", "-", "https">>}, Dotted(K_hosts, K_use_https),
                     "store_false", "str", {}, NoneV),
              Option({<<"--", "insecure", "-", "tls">>}, Dotted(K_hosts, K_insecure_tls),
                     "store_true", "str", {}, NoneV) >>,
           NoSub)

\* Atoms that start with the prefix character '-'.
DashAtoms == {"--", "-h", "-V", "-H", "-K", "-L", "-R", "-W", "-X", "-c", "-A", "-z"}
StartsWithDash(tok) == tok # <<>> /\ Head(tok) \in DashAtoms

\* Strings float() accepts.
FloatLiterals == {<<"5.0">>, <<"9.0">>, <<"30.0">>}

OptionStrings(psr) == UNION {psr.options[i].flags : i \in 1..Len(psr.options)}

\* The option strings an argument selects: itself when it is one, else the
\* long option strings it abbreviates.
Candidates(psr, tok) ==
    IF tok \in OptionStrings(psr) THEN {tok}
    ELSE IF Head(tok) = "--" THEN {f \in OptionStrings(psr) : IsPrefix(tok, f)}
    ELSE {}

\* ArgumentParser._parse_optional: "A" a positional, "O" an option of this
\* parser, "U" an option-like string of no option, "ambiguous" an
\* abbreviation of several option strings.
Classify(psr, tok) ==
    IF ~StartsWithDash(tok) THEN "A"
    ELSE LET c == Candidates(psr, tok)
         IN  IF Cardinality(c) > 1 THEN "ambiguous"
             ELSE IF Cardinality(c) = 1 THEN "O"
             ELSE "U"

OptionOf(psr, tok) ==
    LET f == CHOOSE c \in Candidates(psr, tok) : TRUE
        i == CHOOSE j \in 1..Len(psr.options) : f \in psr.options[j].flags
    IN  psr.options[i]

\* setattr(namespace, dest, value): a namespace keeps its attributes in the
\* order they were first set.
SetAttr(ns, dest, value) ==
    IF \E i \in 1..Len(ns) : ns[i][1] = dest
    THEN [i \in 1..Len(ns) |-> IF ns[i][1] = dest THEN <<dest, value>> ELSE ns[i]]
    ELSE Append(ns, <<dest, value>>)

RECURSIVE SetAttrs(_, _)
SetAttrs(ns, more) ==
    IF more = <<>> THEN ns
    ELSE SetAttrs(SetAttr(ns, Head(more)[1], Head(more)[2]), Tail(more))

\* The defaults argparse puts in a fresh namespace: one per option with a
\* destination, then the destination of the subcommand.
RECURSIVE OptionDefaults(_)
OptionDefaults(options) ==
    IF options = <<>> THEN <<>>
    ELSE LET rest == OptionDefaults(Tail(options))
         IN  IF Head(options).dest = <<>> THEN rest
             ELSE <<<<Head(options).dest, Head(options).default>>>> \o rest

Defaults(psr) ==
    SetAttrs(<<>>, OptionDefaults(psr.options)
                     \o (IF psr.sub.present THEN <<<<psr.sub.dest, NoneV>>>> ELSE <<>>))

ParseOk(ns, extras) == [status |-> "ok", ns |-> ns, extras |-> extras]
ParseError == [status |-> "error", ns |-> <<>>, extras |-> <<>>]
ParseExit == [status |-> "exit", ns |-> <<>>, extras |-> <<>>]

\* The argument of a "store" option converted by its type and checked
\* against its choices; Err when argparse refuses it.
Converted(option, tok) ==
    IF option.type = "float"
    THEN IF tok \in FloatLiterals THEN FloatV(tok) ELSE Err
    ELSE IF option.choices # {} /\ tok \notin option.choices THEN Err
    ELSE StrV(tok)

\* ArgumentParser.parse_known_args.  Every argument is classified first (an
\* ambiguous abbreviation anywhere is an error); then options and
\* positionals are consumed from the left.  A positional selects the
\* subcommand, whose parser receives all the arguments after it; a parser
\* without subcommands leaves positionals and unknown options in extras.
RECURSIVE Consume(_, _, _, _, _)
RECURSIVE parse_known_args(_, _)
Consume(psr, args, i, ns, extras) ==
    IF i > Len(args) THEN ParseOk(ns, extras)
    ELSE LET tok == args[i]
             c == Classify(psr, tok)
         IN  CASE c = "A" /\ ~psr.sub.present ->
                    Consume(psr, args, i + 1, ns, Append(extras, tok))
               [] c = "A" /\ psr.sub.present ->
                    IF tok \notin DOMAIN psr.sub.choices THEN ParseError
                    ELSE LET r == parse_known_args(psr.sub.choices[tok],
                                                   SubSeq(args, i + 1, Len(args)))
                         IN  IF r.status # "ok" THEN r
                             ELSE ParseOk(SetAttrs(SetAttr(ns, psr.sub.dest, StrV(tok)), r.ns),
                                          extras \o r.extras)
               [] c = "U" ->
                    Consume(psr, args, i + 1, ns, Append(extras, tok))
               [] OTHER ->
                    LET o == OptionOf(psr, tok)
                    IN  CASE o.kind = "exit" -> ParseExit
                          [] o.kind = "store_true" ->
                                Consume(psr, args, i + 1, SetAttr(ns, o.dest, BoolV(TRUE)), extras)
                          [] o.kind = "store_false" ->
                                Consume(psr, args, i + 1, SetAttr(ns, o.dest, BoolV(FALSE)), extras)
                          [] OTHER ->
                                IF i + 1 > Len(args) \/ Classify(psr, args[i + 1]) # "A"
                                    \/ Converted(o, args[i + 1]) = Err
                                THEN ParseError
                                ELSE Consume(psr, args, i + 2,
                                             SetAttr(ns, o.dest, Converted(o, args[i + 1])), extras)

parse_known_args(psr, args) ==
    IF \E i \in 1..Len(args) : Classify(psr, args[i]) = "ambiguous" THEN ParseError
    ELSE Consume(psr, args, 1, Defaults(psr), <<>>)

\* {k: v for k, v in vars(namespace).items() if v is not None}
RECURSIVE NotNone(_)
NotNone(ns) ==
    IF ns = <<>> THEN <<>>
    ELSE IF Head(ns)[2] = NoneV THEN NotNone(Tail(ns))
    ELSE <<Head(ns)>> \o NotNone(Tail(ns))

\* parse_args of __main__.py: [status, opts].  With partial the unknown
\* arguments are dropped; without it any left over argument is an error.
\* status "error" is argparse's exit status 2, "exit" its status 0, and
\* "raise" an exception of mapping_expand.
parse_args(psr, args, partial) ==
    LET r == parse_known_args(psr, args)
        expanded == mapping_expand(NotNone(r.ns), SEPARATOR)
    IN  IF r.status # "ok" THEN [status |-> r.status, opts |-> Err]
        ELSE IF ~partial /\ r.extras # <<>> THEN [status |-> "error", opts |-> Err]
        ELSE IF expanded = Err THEN [status |-> "raise", opts |-> Err]
        ELSE [status |-> "ok", opts |-> expanded]

---------------------------------------------------------------------------
(* becmd/api.py *)

INTERFACE_PRIMARY_IGNORE == {<<"examples">>, <<"filters">>}
K_version == <<"version">>
K_functions == <<"functions">>
K_input == <<"input">>
K_description == <<"description">>

ListV(l) == [t |-> "list", l |-> l]

\* Python truth value.
Truthy(x) ==
    CASE x.t = "none" -> FALSE
      [] x.t = "map" -> DOMAIN x.m # {}
      [] x.t = "list" -> x.l # <<>>
      [] x.t = "bool" -> x.v = <<"true">>
      [] OTHER -> x.v # <<>>

\* str.replace(old, new) for one-atom old and new.
Replace(str, old, new) == [i \in 1..Len(str) |-> IF str[i] = old THEN new ELSE str[i]]

\* Some enumeration of a finite set.
RECURSIVE SetToSeq(_)
SetToSeq(set) ==
    IF set = {} THEN <<>>
    ELSE LET x == CHOOSE y \in set : TRUE
         IN  <<x>> \o SetToSeq(set \ {x})

Elements(seq) == {seq[i] : i \in 1..Len(seq)}

\* add_parser for one action without the replace('_', '-') of the input
\* names: the flags and destinations keep the declared names.
ActionParserUndashed(a_def) ==
    LET inputs == Get(a_def.m, K_input, EmptyMap)
    IN  IF ~IsMap(inputs) THEN Err
        ELSE LET names == SetToSeq(DOMAIN inputs.m)
             IN  IF \/ \E n \in DOMAIN inputs.m : ~IsMap(inputs.m[n])
                    \/ \E n \in DOMAIN inputs.m : <<"--">> \o n \in HelpOption.flags
                 THEN Err
                 ELSE Parser(<<HelpOption>> \o
                             [i \in 1..Len(names) |->
                                Option({<<"--">> \o names[i]},
                                       Dotted(Dotted(K_api, K_params), names[i]),
                                       "store", "str", {},
                                       Get(inputs.m[names[i]].m, K_default, NoneV))],
                             NoSub)

\* The parser add_parser creates for one action: --help and one --<dashed
\* name> per declared input.  Err when an input description is no mapping
\* or two options of the parser get the same option string.
ActionParser(a_def) ==
    LET inputs == Get(a_def.m, K_input, EmptyMap)
    IN  IF ~IsMap(inputs) THEN Err
        ELSE LET names == SetToSeq(DOMAIN inputs.m)
                 dashed(n) == Replace(n, "_", "-")
                 flag(n) == <<"--">> \o dashed(n)
             IN  IF \/ \E n \in DOMAIN inputs.m : ~IsMap(inputs.m[n])
                    \/ \E n \in DOMAIN inputs.m : flag(n) \in HelpOption.flags
                    \/ \E n1, n2 \in DOMAIN inputs.m : n1 # n2 /\ dashed(n1) = dashed(n2)
                 THEN Err
                 ELSE Parser(<<HelpOption>> \o
                             [i \in 1..Len(names) |->
                                Option({flag(names[i])},
                                       Dotted(Dotted(K_api, K_params), dashed(names[i])),
                                       "store", "str", {},
                                       Get(inputs.m[names[i]].m, K_default, NoneV))],
                             NoSub)

\* argparser_from_actions: the 'action' subcommands of a definition, one per
\* listed function that has a non-empty definition.
argparser_from_actions(definition) ==
    LET functions == Elements(Get(definition.m, K_functions, ListV(<<>>)).l)
        defined == {n \in functions : Truthy(Get(definition.m, n, NoneV))}
    IN  IF \E n \in defined : ~IsMap(definition.m[n]) \/ ActionParser(definition.m[n]) = Err
        THEN Err
        ELSE [present |-> TRUE, dest |-> Dotted(K_api, K_action),
              choices |-> [n \in defined |-> ActionParser(definition.m[n])]]

\* The parser of one primary interface: its actions when it declares
\* functions, else one 'secondary' subcommand per item of the entry.
PrimaryParser(secondaries) ==
    IF ~IsMap(secondaries) THEN Err
    ELSE IF Truthy(Get(secondaries.m, K_functions, NoneV))
    THEN LET sub == argparser_from_actions(secondaries)
         IN  IF sub = Err THEN Err ELSE Parser(<<HelpOption>>, sub)
    ELSE IF \E n \in DOMAIN secondaries.m :
                ~IsMap(secondaries.m[n]) \/ argparser_from_actions(secondaries.m[n]) = Err
    THEN Err
    ELSE Parser(<<HelpOption>>,
                [present |-> TRUE, dest |-> Dotted(K_api, K_secondary),
                 choices |-> [n \in DOMAIN secondaries.m |->
                                Parser(<<HelpOption>>,
                                       argparser_from_actions(secondaries.m[n]))]])

\* argparser_from_interface: the parser with the 'primary' subcommands
\* attached and, when the interface has a version entry, -A/--api-version.
\* Err when building it raises.
argparser_from_interface(psr, interface) ==
    LET primaries == DOMAIN interface.m \ (INTERFACE_PRIMARY_IGNORE \cup {K_version})
        versioned == K_version \in DOMAIN interface.m
    IN  IF \/ versioned /\ ~IsMap(interface.m[K_version])
           \/ \E p \in primaries : PrimaryParser(interface.m[p]) = Err
        THEN Err
        ELSE Parser(psr.options \o
                      (IF versioned
                       THEN <<Option({<<"-A">>, <<"--", "api", "-", "version">>},
                                     <<>>, "exit", "str", {}, NoneV)>>
                       ELSE <<>>),
                    [present |-> TRUE, dest |-> Dotted(K_api, K_primary),
                     choices |-> [p \in primaries |-> PrimaryParser(interface.m[p])]])

_RESERVED == {K_action, K_apikey, K_primary, K_secondary}

\* Endpoint.__setitem__ without the test of the reserved names.
SetItemUnchecked(ep, key, value) ==
    [ep EXCEPT !.params = Put(ep.params, key, value)]

\* Endpoint.__setitem__: KeyError for a reserved parameter name.
SetItem(ep, key, value) ==
    IF key \in _RESERVED THEN Err
    ELSE [ep EXCEPT !.params = Put(ep.params, key, value)]

RECURSIVE SetItems(_, _, _)
SetItems(ep, keys, values) ==
    IF ep = Err \/ keys = <<>> THEN ep
    ELSE SetItems(SetItem(ep, Head(keys), values[Head(keys)]), Tail(keys), values)

\* Endpoint(host, **kwargs): Python binds the keywords primary, secondary
\* and action to the parameters of __init__ and passes only the others as
\* **params, each through __setitem__.  TypeError when primary is missing.
Endpoint(h, kwargs) ==
    IF K_primary \notin DOMAIN kwargs THEN Err
    ELSE SetItems([host |-> h,
                   primary |-> kwargs[K_primary],
                   secondary |-> Get(kwargs, K_secondary, NoneV),
                   action |-> Get(kwargs, K_action, NoneV),
                   params |-> EmptyFn],
                  SetToSeq(DOMAIN kwargs \ {K_primary, K_secondary, K_action}),
                  kwargs)

InterfaceEndpoint(h) == Endpoint(h, K_primary :> StrV(<<"interface">>))

---------------------------------------------------------------------------
(* becmd/__main__.py *)

PROG_NAME == K_becmd

\* endpoint_from_config: Endpoint(host, **api, **params); a keyword given
\* by both mappings is a TypeError.
endpoint_from_config(config, h) ==
    LET api == Get(config.m, K_api, EmptyMap).m
        params == Get(api, K_params, EmptyMap).m
        rest == [k \in DOMAIN api \ {K_params} |-> api[k]]
    IN  IF DOMAIN rest \cap DOMAIN params # {} THEN Err
        ELSE Endpoint(h, rest @@ params)

\* The configuration read_config builds from the parsed file before it is
\* validated: the reserved sections, the other top-level keys gathered
\* under 'hosts', then the deep update.
ConfigOf(data, update) ==
    LET reserved == [k \in DOMAIN data.m \cap CONFIG_RESERVED_KEYS |-> data.m[k]]
        hosts == Map([k \in DOMAIN data.m \ CONFIG_RESERVED_KEYS |-> data.m[k]])
    IN  mapping_update(Map(Put(reserved, K_hosts, hosts)), update)

\* read_config: [status, cfg]; status "raise" when the update raises,
\* "invalid" on ValidationError.
read_config(data, update) ==
    LET merged == ConfigOf(data, update)
    IN  IF merged = Err THEN [status |-> "raise", cfg |-> Err]
        ELSE IF validate(Config, merged) = Err THEN [status |-> "invalid", cfg |-> Err]
        ELSE [status |-> "ok", cfg |-> validate(Config, merged)]

\* dict.update(other)
DictUpdate(f, g) == [k \in DOMAIN f \cup DOMAIN g |-> IF k \in DOMAIN g THEN g[k] ELSE f[k]]

\* The host mapping host_from_config validates: the common host settings,
\* updated with the entry of the host, updated with `update`, with 'host'
\* defaulting to the name.
HostOf(config, update) ==
    LET common == Get(Get(config.m, PROG_NAME, EmptyMap).m, K_hosts, EmptyMap).m
        name == Get(common, K_default, StrV(<<>>)).v
        entry == Get(Get(config.m, K_hosts, EmptyMap).m, name, EmptyMap).m
        merged == DictUpdate(DictUpdate(common, entry), update)
    IN  Put(merged, K_host,
            IF K_host \in DOMAIN merged /\ Truthy(merged[K_host])
            THEN merged[K_host] ELSE StrV(name))

\* host_from_config(config, update=update) for the default host.
host_from_config(config, update) == validate(Host, Map(HostOf(config, update)))

---------------------------------------------------------------------------
(* main(): inputs *)

NoCache == [installed |-> FALSE, cleared |-> FALSE]

\* The state of main() while a pure function is examined on its own.
MainIdle ==
    /\ pc = "idle" /\ argv = <<>> /\ file = NoneV /\ iface = NoneV
    /\ opts = NoneV /\ opts1 = NoneV /\ cfg = NoneV /\ host = NoneV
    /\ parser = get_argparser /\ cache = NoCache /\ netCalls = <<>>
    /\ endpoint = NoneV /\ exitCode = -1 /\ failure = "none"

\* Static parts of the command line.
StaticArgs ==
    { <<>>,
      << <<"-H">>, <<"h1">> >>,
      << <<"-H">>, <<"h1">>, <<"-K">>, <<"kcli">> >>,
      << <<"-W">>, <<"9.0">>, <<"--", "no", "-", "https">> >>,
      << <<"-X">>, <<"-R">> >>,
      << <<"-R">> >>,
      << <<"-H">>, <<"hosts", "2">> >> }

\* Subcommand parts of the command line.
DynamicArgs ==
    { <<>>,
      << <<"scan">> >>,
      << <<"scan">>, <<"list">> >>,
      << <<"scan">>, <<"list">>, <<"--", "target", "-", "id">>, <<"5">> >>,
      << <<"scan">>, <<"list">>, <<"--", "bogus", "-", "flag">> >>,
      << <<"scan">>, <<"list">>, <<"--", "host">>, <<"x">> >>,
      << <<"scan">>, <<"list">>, <<"--", "secondary">>, <<"s">> >>,
      << <<"scan">>, <<"list">>, <<"--", "apikey">>, <<"k">> >>,
      << <<"scan">>, <<"list">>, <<"--", "action">>, <<"a">> >>,
      << <<"net">>, <<"sub">>, <<"get">>, <<"--", "x">>, <<"1">> >> }

ArgVectors == {s \o d : s \in StaticArgs, d \in DynamicArgs}

\* The static and the subcommand part of an argument vector.
StaticPart(args) == CHOOSE s \in StaticArgs : \E d \in DynamicArgs : args = s \o d

\* Configuration files: a [becmd.hosts] table and an optional [h1] table,
\* each setting any subset of its keys.
CommonSettings ==
    (K_default :> StrV(<<"h1">>)) @@ (K_api_key :> StrV(<<"kcommon">>))
      @@ (K_use_https :> BoolV(FALSE)) @@ (K_timeout :> FloatV(<<"5.0">>))
EntrySettings ==
    (K_api_key :> StrV(<<"kentry">>)) @@ (K_use_https :> BoolV(TRUE))
      @@ (K_timeout :> FloatV(<<"30.0">>))

Restrict(f, ks) == [k \in ks |-> f[k]]

LayeredFiles ==
    {Map(K_becmd :> Map(K_hosts :> Map(Restrict(CommonSettings, cs)))) :
        cs \in SUBSET DOMAIN CommonSettings}
    \cup
    {Map((K_becmd :> Map(K_hosts :> Map(Restrict(CommonSettings, cs))))
           @@ (<<"h1">> :> Map(Restrict(EntrySettings, es)))) :
        cs \in SUBSET DOMAIN CommonSettings, es \in SUBSET DOMAIN EntrySettings}

Files ==
    LayeredFiles \cup
    { EmptyMap,
      Map(K_becmd :> StrV(<<"oops">>)),
      Map(K_becmd :> Map(K_hosts :> Map((K_default :> StrV(<<"h1">>))
                                          @@ (K_use_cache :> BoolV(FALSE))
                                          @@ (K_api_key :> StrV(<<"kcommon">>))
                                          @@ (K_timeout :> FloatV(<<"5.0">>))))) }

ScanInputs(names) ==
    Map([n \in names |->
           IF n = <<"target", "_", "id">> THEN Map(K_default :> StrV(<<"0">>)) ELSE EmptyMap])

\* A primary or secondary entry that declares the functions `names`, the
\* function `name` taking the inputs `inputs`.
Definition(names, name, inputs) ==
    Map((K_functions :> ListV(names)) @@ (name :> Map(K_input :> ScanInputs(inputs))))

\* Interface descriptions the remote host may serve.
SpecExampleInterface ==
    Map(<<"scan">> :> Definition(<< <<"list">> >>, <<"list">>, {<<"target", "_", "id">>}))

FullInterface ==
    Map((<<"scan">> :> Definition(<< <<"list">>, <<"undefined">> >>, <<"list">>,
                                  {<<"target", "_", "id">>, K_host, K_secondary,
                                   K_apikey, K_action}))
          @@ (<<"net">> :> Map(<<"sub">> :> Definition(<< <<"get">> >>, <<"get">>, {<<"x">>})))
          @@ (<<"examples">> :> StrV(<<"text">>))
          @@ (K_version :> Map(<<"api">> :> StrV(<<"1">>))))

DescribedInterface ==
    Map(<<"net">> :> Map((K_description :> StrV(<<"network">>))
                           @@ (<<"sub">> :> Definition(<< <<"get">> >>, <<"get">>, {<<"x">>}))))

Interfaces == {SpecExampleInterface, FullInterface, DescribedInterface}

---------------------------------------------------------------------------
(* main(): steps *)

Init ==
    /\ fpc = "idle" /\ farg = NoneV /\ fres = NoneV
    /\ pc = "parse1"
    /\ argv \in ArgVectors
    /\ file = NoneV /\ iface = NoneV
    /\ opts = NoneV /\ opts1 = NoneV /\ cfg = NoneV /\ host = NoneV
    /\ parser = get_argparser
    /\ cache = NoCache /\ netCalls = <<>>
    /\ endpoint = NoneV /\ exitCode = -1 /\ failure = "none"

\* sys.exit(code), the SystemExit of argparse, or an uncaught exception
\* (status 1).
Exit(code, why) == pc' = "exit" /\ exitCode' = code /\ failure' = why
Goto(next) == pc' = next /\ UNCHANGED <<exitCode, failure>>

\* opts = parse_args(parser, sys.argv[1:], partial=True)
ParsePartial ==
    /\ pc = "parse1"
    /\ LET r == parse_args(parser, argv, TRUE)
       IN  /\ opts' = r.opts
           /\ opts1' = r.opts
           /\ CASE r.status = "ok" -> Goto("read_config")
                [] r.status = "error" -> Exit(2, "usage")
                [] r.status = "exit" -> Exit(0, "help")
                [] OTHER -> Exit(1, "crash")
    /\ UNCHANGED <<fvars, argv, file, iface, cfg, host, parser, cache, netCalls, endpoint>>

\* cfg = read_config(opts.get('config'), update={PROG_NAME: opts}), with
\* sys.exit(1) on ValidationError.
ReadConfig ==
    /\ pc = "read_config"
    /\ \E data \in Files :
         LET r == read_config(data, Map(PROG_NAME :> opts))
         IN  /\ file' = data
             /\ cfg' = r.cfg
             /\ CASE r.status = "ok" -> Goto("logging")
                  [] r.status = "invalid" -> Exit(1, "config_invalid")
                  [] OTHER -> Exit(1, "crash")
    /\ UNCHANGED <<fvars, argv, iface, opts, opts1, host, parser, cache, netCalls, endpoint>>

\* The default host of the configuration, '' when there is none.
DefaultHost(config) == Get(config.m[PROG_NAME].m[K_hosts].m, K_default, StrV(<<>>))

\* logging_from_config(cfg, update=opts.get('logging')), then the check
\* that a default host is configured.
SetupLogging ==
    /\ pc = "logging"
    /\ LET common == cfg.m[PROG_NAME].m[K_logging]
           merged == IF K_logging \in DOMAIN opts.m
                     THEN mapping_update(common, opts.m[K_logging]) ELSE common
       IN  IF merged = Err \/ validate(CommonLogging, merged) = Err THEN Exit(1, "crash")
           ELSE IF ~Truthy(DefaultHost(cfg)) THEN Exit(1, "no_host")
           ELSE Goto("host")
    /\ UNCHANGED <<fvars, argv, file, iface, opts, opts1, cfg, host, parser, cache,
                   netCalls, endpoint>>

\* opts.get('hosts') as the update of host_from_config: nothing when absent.
HostsUpdate(o) == Get(o.m, K_hosts, EmptyMap).m

\* The except branch of the host step left out: a host that does not
\* validate is used all the same.
ResolveHostNoExit ==
    /\ pc = "host"
    /\ host' = host_from_config(cfg, HostsUpdate(opts))
    /\ Goto("cache")
    /\ UNCHANGED <<fvars, argv, file, iface, opts, opts1, cfg, parser, cache, netCalls,
                   endpoint>>

\* host = host_from_config(cfg, update=opts.get('hosts')), with sys.exit(1)
\* on ValidationError.
ResolveHost ==
    /\ pc = "host"
    /\ host' = host_from_config(cfg, HostsUpdate(opts))
    /\ IF host' = Err THEN Exit(1, "host_invalid") ELSE Goto("cache")
    /\ UNCHANGED <<fvars, argv, file, iface, opts, opts1, cfg, parser, cache, netCalls,
                   endpoint>>

\* cache_from_config without the test of use_cache.
cache_from_config_always(h, clear) == [installed |-> TRUE, cleared |-> Truthy(clear)]

\* cache_from_config(host, opts.get('refresh')): nothing unless use_cache;
\* cache_setup clears the cache when asked, else drops the expired entries.
cache_from_config(h, clear) ==
    IF ~Truthy(Get(h.m, K_use_cache, NoneV)) THEN NoCache
    ELSE [installed |-> TRUE, cleared |-> Truthy(clear)]

SetupCache ==
    /\ pc = "cache"
    /\ cache' = cache_from_config(host, Get(opts.m, K_refresh, NoneV))
    /\ Goto("fetch")
    /\ UNCHANGED <<fvars, argv, file, iface, opts, opts1, cfg, host, parser, netCalls,
                   endpoint>>

\* A request of becmd.net.get.
Request(ep, h) ==
    [endpoint |-> ep, timeout |-> h.m[K_timeout], insecure |-> h.m[K_insecure_tls]]

\* interface = becmd.net.get(InterfaceEndpoint(host), ...): the remote host
\* answers with its interface description, or the request fails with
\* NetworkError and main exits with status 1.
FetchInterface ==
    /\ pc = "fetch"
    /\ netCalls' = Append(netCalls, Request(InterfaceEndpoint(host), host))
    /\ \/ \E i \in Interfaces : iface' = i /\ Goto("extend")
       \/ iface' = iface /\ Exit(1, "network")
    /\ UNCHANGED <<fvars, argv, file, opts, opts1, cfg, host, parser, cache, endpoint>>

\* becmd.api.argparser_from_interface(parser, interface)
ExtendParser ==
    /\ pc = "extend"
    /\ LET p == argparser_from_interface(parser, iface)
       IN  IF p = Err THEN parser' = parser /\ Exit(1, "crash")
           ELSE parser' = p /\ Goto("parse2")
    /\ UNCHANGED <<fvars, argv, file, iface, opts, opts1, cfg, host, cache, netCalls,
                   endpoint>>

\* opts = parse_args(parser, sys.argv[1:], partial=False)
ParseFull ==
    /\ pc = "parse2"
    /\ LET r == parse_args(parser, argv, FALSE)
       IN  /\ opts' = r.opts
           /\ CASE r.status = "ok" -> Goto("endpoint")
                [] r.status = "error" -> Exit(2, "usage")
                [] r.status = "exit" -> Exit(0, "help")
                [] OTHER -> Exit(1, "crash")
    /\ UNCHANGED <<fvars, argv, file, iface, opts1, cfg, host, parser, cache, netCalls,
                   endpoint>>

\* endpoint = endpoint_from_config(opts, host); main() returns after it.
BuildEndpoint ==
    /\ pc = "endpoint"
    /\ endpoint' = endpoint_from_config(opts, host)
    /\ IF endpoint' = Err THEN Exit(1, "crash")
       ELSE pc' = "done" /\ exitCode' = 0 /\ failure' = "none"
    /\ UNCHANGED <<fvars, argv, file, iface, opts, opts1, cfg, host, parser, cache,
                   netCalls>>

Next ==
    \/ ParsePartial
    \/ ReadConfig
    \/ SetupLogging
    \/ ResolveHost
    \/ SetupCache
    \/ FetchInterface
    \/ ExtendParser
    \/ ParseFull
    \/ BuildEndpoint

Spec == Init /\ [][Next]_vars

---------------------------------------------------------------------------
(* Inputs of the pure-function specifications *)

MaxKeyLen == 3      \* atoms in a flat key
MaxItems == 2       \* items of a flat mapping
MaxDepth == 2       \* nesting depth of the merged mappings

KeyAtoms == {"a", SEPARATOR}
RECURSIVE StringsUpTo(_, _)
StringsUpTo(atoms, n) ==
    IF n = 0 THEN {<<>>}
    ELSE LET shorter == StringsUpTo(atoms, n - 1)
         IN  shorter \cup {Append(s, a) : s \in shorter, a \in atoms}

FlatKeys == StringsUpTo(KeyAtoms, MaxKeyLen)
\* The i-th inserted item carries the value "v<i>".
ItemValue(i) == StrV(<<"v", ToString(i)>>)

RECURSIVE FlatMappings(_)
FlatMappings(n) ==
    IF n = 0 THEN {<<>>}
    ELSE LET shorter == FlatMappings(n - 1)
         IN  shorter \cup
             {Append(s, <<k, ItemValue(Len(s) + 1)>>) :
                 <<s, k>> \in {p \in shorter \X FlatKeys :
                                 /\ Len(p[1]) = n - 1
                                 /\ \A i \in 1..Len(p[1]) : p[1][i][1] # p[2]}}

MergeKeys == {<<"a">>, <<"b">>}
RECURSIVE Mappings(_, _)
Mappings(leaf, depth) ==
    IF depth = 0 THEN {}
    ELSE LET vals == {leaf} \cup Mappings(leaf, depth - 1)
         IN  UNION {{Map(f) : f \in [ks -> vals]} : ks \in SUBSET MergeKeys}

---------------------------------------------------------------------------
(* Specification of mapping_expand *)

InitExpand ==
    /\ MainIdle
    /\ fpc = "call"
    /\ farg \in {[mapping |-> m] : m \in FlatMappings(MaxItems)}
    /\ fres = Err

CallExpand ==
    /\ fpc = "call"
    /\ fres' = mapping_expand(farg.mapping, SEPARATOR)
    /\ fpc' = "ret"
    /\ UNCHANGED <<farg, mvars>>

NextExpand == CallExpand

SpecExpand == InitExpand /\ [][NextExpand]_vars

(* Specification of mapping_update *)

InitUpdate ==
    /\ MainIdle
    /\ fpc = "call"
    /\ farg \in {[mapping |-> t, update |-> u] :
                    t \in Mappings(StrV(<<"t">>), MaxDepth),
                    u \in Mappings(StrV(<<"u">>), MaxDepth)}
    /\ fres = Err

CallUpdate ==
    /\ fpc = "call"
    /\ fres' = mapping_update(farg.mapping, farg.update)
    /\ fpc' = "ret"
    /\ UNCHANGED <<farg, mvars>>

NextUpdate == CallUpdate

SpecUpdate == InitUpdate /\ [][NextUpdate]_vars

(* Specification of validate *)

\* Candidate values of the keys of a host configuration: a valid one and one
\* of the wrong type.
HostKeyValues ==
    (K_host :> {StrV(<<"scan1">>), StrV(<<"bad", "/", "host">>)})
      @@ (K_api_key :> {StrV(<<"key">>)})
      @@ (K_timeout :> {FloatV(<<"5.0">>), StrV(<<"soon">>)})
      @@ (K_use_https :> {BoolV(FALSE)})
      @@ (K_use_cache :> {BoolV(FALSE), StrV(<<"no">>)})
      @@ (K_insecure_tls :> {BoolV(TRUE)})
      @@ (K_default :> {StrV(<<"scan1">>)})

HostObjects ==
    UNION {{Map(f) : f \in {g \in [ks -> UNION {HostKeyValues[k] : k \in ks}] :
                              \A k \in ks : g[k] \in HostKeyValues[k]}} :
           ks \in SUBSET DOMAIN HostKeyValues}

\* Candidate host names and default-host references.
NameCandidates ==
    {K_becmd, K_hosts, K_logging, <<"hosts", "2">>, <<"becmd", "-", "lab">>,
     <<"h1">>, <<"my", "hosts">>, <<>>}

SchemaOf(name) ==
    CASE name = "Host" -> Host
      [] name = "HostOpt" -> HostOpt
      [] name = "ConfigHost" -> ConfigHost
      [] name = "CommonHosts" -> CommonHosts

InitValidate ==
    /\ MainIdle
    /\ fpc = "call"
    /\ farg \in {[schema |-> n, obj |-> o, name |-> <<>>] :
                    n \in {"Host", "HostOpt"}, o \in HostObjects}
         \cup {[schema |-> "ConfigHost", name |-> n,
                obj |-> Map(n :> Map(K_timeout :> FloatV(<<"5.0">>)))] :
                    n \in NameCandidates}
         \cup {[schema |-> "CommonHosts", name |-> n,
                obj |-> Map(K_default :> StrV(n))] : n \in NameCandidates}
    /\ fres = Err

CallValidate ==
    /\ fpc = "call"
    /\ fres' = validate(SchemaOf(farg.schema), farg.obj)
    /\ fpc' = "ret"
    /\ UNCHANGED <<farg, mvars>>

NextValidate == CallValidate

SpecValidate == InitValidate /\ [][NextValidate]_vars

---------------------------------------------------------------------------
(* Properties of mapping_expand (SpecExpand) *)

Items(items) == {items[i] : i \in 1..Len(items)}
Paths(items) == {Split(items[i][1], SEPARATOR) : i \in 1..Len(items)}
\* One key's path is a strict prefix of another key's path.
HasCollision(items) == \E p, q \in Paths(items) : IsStrictPrefix(p, q)

\* The value a path leads to in a nested mapping.
RECURSIVE Lookup(_, _)
Lookup(d, path) ==
    IF path = <<>> THEN d
    ELSE IF IsMap(d) /\ Head(path) \in DOMAIN d.m THEN Lookup(d.m[Head(path)], Tail(path))
    ELSE Err

\* The flat items of a nested mapping: each leaf under its path joined with
\* the separator.
RECURSIVE FlattenFrom(_, _, _)
FlattenFrom(d, prefix, separator) ==
    UNION {IF IsMap(d.m[k])
           THEN FlattenFrom(d.m[k], prefix \o k \o <<separator>>, separator)
           ELSE {<<prefix \o k, d.m[k]>>} : k \in DOMAIN d.m}

\* C8: for a flat mapping without colliding prefixes mapping_expand returns
\* the nested mapping in which every key's split path leads to its value,
\* and flattening the result gives back the flat mapping.
C8_ExpandRoundTrip ==
    (fpc = "ret" /\ "mapping" \in DOMAIN farg /\ ~HasCollision(farg.mapping)) =>
        /\ fres # Err
        /\ \A it \in Items(farg.mapping) : Lookup(fres, Split(it[1], SEPARATOR)) = it[2]
        /\ FlattenFrom(fres, <<>>, SEPARATOR) = Items(farg.mapping)

\* C8 witness: two keys that share their first segment were expanded into
\* one merged subtree.
C8_Witness ==
    /\ fpc = "ret" /\ "mapping" \in DOMAIN farg
    /\ ~HasCollision(farg.mapping)
    /\ Len(farg.mapping) = 2
    /\ \E p, q \in Paths(farg.mapping) : p # q /\ Len(p) = 2 /\ Len(q) = 2 /\ p[1] = q[1]
    /\ fres # Err

\* C9: when one key is a strict path prefix of another, mapping_expand fails
\* with an error, whatever the insertion order.
C9_CollisionFails ==
    (fpc = "ret" /\ "mapping" \in DOMAIN farg /\ HasCollision(farg.mapping)) => fres = Err

(* Properties of mapping_update (SpecUpdate) *)

\* The right-biased deep merge: mapping values of update are merged into the
\* target's value (a target value that is no mapping contributes no keys),
\* other values of update replace, keys only in target stay.
RECURSIVE DeepMerge(_, _)
DeepMerge(target, update) ==
    LET tm == IF IsMap(target) THEN target.m ELSE EmptyFn
    IN  Map([k \in DOMAIN tm \cup DOMAIN update.m |->
              IF k \notin DOMAIN update.m THEN tm[k]
              ELSE IF IsMap(update.m[k])
                   THEN DeepMerge(Get(tm, k, EmptyMap), update.m[k])
                   ELSE update.m[k]])

\* C7: mapping_update returns the right-biased deep merge for all nested
\* inputs, also when target holds a leaf where update holds a mapping.
C7_DeepMerge ==
    (fpc = "ret" /\ "update" \in DOMAIN farg) =>
        fres = DeepMerge(farg.mapping, farg.update)

(* Properties of validate (SpecValidate) *)

\* C2: a host configuration with only `host` set validates under HostOpt and
\* comes back with use_https=true, use_cache=true, insecure_tls=false and
\* timeout=15.0 filled in.
C2_HostDefaultsInjected ==
    (/\ fpc = "ret" /\ "schema" \in DOMAIN farg /\ farg.schema = "HostOpt"
     /\ DOMAIN farg.obj.m = {K_host}
     /\ farg.obj.m[K_host] = StrV(<<"scan1">>)) =>
        fres = Map((K_host :> StrV(<<"scan1">>)) @@ (K_use_https :> BoolV(TRUE))
                     @@ (K_use_cache :> BoolV(TRUE)) @@ (K_insecure_tls :> BoolV(FALSE))
                     @@ (K_timeout :> FloatV(<<"15.0">>)))

\* C10: a host name or default-host reference is rejected when it equals a
\* reserved key, and every other non-empty name passes the reserved-key rule.
C10_ReservedNamesOnly ==
    (/\ fpc = "ret" /\ "schema" \in DOMAIN farg
     /\ farg.schema \in {"ConfigHost", "CommonHosts"}) =>
        /\ farg.name \in CONFIG_RESERVED_KEYS => fres = Err
        /\ (farg.name # <<>> /\ farg.name \notin CONFIG_RESERVED_KEYS) => fres # Err

---------------------------------------------------------------------------
(* Properties of main() (Spec) *)

HostSettingKeys == {K_api_key, K_use_https, K_use_cache, K_insecure_tls, K_timeout}

\* The layers of the host settings, highest priority first: the flags of
\* the command line, the entry of the selected host in the file, the
\* [becmd.hosts] table of the file, the defaults of the schema.
TableOf(f, k) == IF k \in DOMAIN f /\ IsMap(f[k]) THEN f[k].m ELSE EmptyFn
HostLayers ==
    << [k \in DOMAIN HostsUpdate(opts1) \ {K_default} |-> HostsUpdate(opts1)[k]],
       IF DefaultHost(cfg).v \in CONFIG_RESERVED_KEYS THEN EmptyFn
       ELSE TableOf(file.m, DefaultHost(cfg).v),
       TableOf(TableOf(file.m, K_becmd), K_hosts),
       HostDefaults >>

SetBy(k) == {i \in 1..Len(HostLayers) : k \in DOMAIN HostLayers[i]}
Highest(k) == CHOOSE i \in SetBy(k) : \A j \in SetBy(k) : i <= j

HostResolved == host # NoneV /\ host # Err

\* C1: every setting of the resolved host descriptor has the value of the
\* highest-priority layer that sets it: command line, then the host's entry
\* in the file, then [becmd.hosts] of the file, then the schema default.
C1_LayeredPriority ==
    HostResolved =>
        \A k \in HostSettingKeys :
            SetBy(k) # {} =>
                k \in DOMAIN host.m /\ host.m[k] = HostLayers[Highest(k)][k]

\* The three fatal conditions of the configuration, read off the state.
ConfigInvalid ==
    file # NoneV /\ read_config(file, Map(PROG_NAME :> opts1)).status = "invalid"
NoDefaultHost ==
    cfg.t = "map" /\ pc # "logging" /\ ~Truthy(DefaultHost(cfg))
HostInvalid ==
    /\ cfg.t = "map" /\ pc \notin {"logging", "host"}
    /\ Truthy(DefaultHost(cfg))
    /\ host_from_config(cfg, HostsUpdate(opts1)) = Err

\* C3: when configuration validation fails, host validation fails or no
\* default host is configured, main has exited with status 1 without
\* installing the cache and without any network request.
C3_FailuresExitBeforeIO ==
    (ConfigInvalid \/ NoDefaultHost \/ HostInvalid) =>
        /\ pc = "exit" /\ exitCode = 1
        /\ cache = NoCache
        /\ netCalls = <<>>

\* C3 witness: a run that ended because the selected host did not validate.
C3_Witness == HostInvalid /\ pc = "exit" /\ exitCode = 1 /\ failure = "host_invalid"

ActionSelected(o) ==
    o.t = "map" /\ K_api \in DOMAIN o.m /\ K_action \in DOMAIN o.m[K_api].m

IsDiscovery(call) == call.endpoint.primary = StrV(<<"interface">>)

\* C4: a run that reaches the network makes exactly one interface-discovery
\* request, the first one; a run in which the second pass selects an action
\* ends with exactly two requests, the second one for the built endpoint.
C4_DiscoveryThenAction ==
    /\ netCalls # <<>> =>
          /\ IsDiscovery(netCalls[1])
          /\ Cardinality({i \in 1..Len(netCalls) : IsDiscovery(netCalls[i])}) = 1
    /\ (pc = "done" /\ ActionSelected(opts)) =>
          /\ Len(netCalls) = 2
          /\ netCalls[2].endpoint = endpoint

\* Every option string of a parser and of the parsers of its subcommands.
RECURSIVE AllOptionStrings(_)
AllOptionStrings(psr) ==
    OptionStrings(psr) \cup
    UNION {AllOptionStrings(psr.sub.choices[n]) : n \in DOMAIN psr.sub.choices}

\* C5: the first pass extracts the static options exactly as if the
\* subcommand part of the command line were absent, and a command line the
\* second pass accepts holds no option-like token unknown to the static
\* flags and to the generated tree.
C5_TwoPassParsing ==
    /\ opts1 # NoneV =>
          opts1 = parse_args(get_argparser, StaticPart(argv), TRUE).opts
    /\ (pc \in {"endpoint", "done"} \/ endpoint # NoneV) =>
          \A i \in 1..Len(argv) :
              StartsWithDash(argv[i]) => argv[i] \in AllOptionStrings(parser)

ParamKeys(o) ==
    IF o.t = "map" /\ K_api \in DOMAIN o.m
    THEN DOMAIN Get(o.m[K_api].m, K_params, EmptyMap).m
    ELSE {}

\* C6: when the parsed api.params mapping holds a reserved key (action,
\* apikey, primary, secondary), endpoint_from_config fails, and no request
\* for the action is made.
C6_ReservedParamsRejected ==
    (endpoint # NoneV /\ ParamKeys(opts) \cap _RESERVED # {}) =>
        /\ endpoint = Err
        /\ Len(netCalls) <= 1

---------------------------------------------------------------------------
(* Specification of the generated command line: argparser_from_interface  *)
(* on the static parser, then one strict parse.                            *)

SiblingInterface ==
    Map(<<"net">> :>
          Map((<<"sub">> :> Definition(<< <<"get">> >>, <<"get">>, {<<"x">>}))
                @@ (<<"tub">> :> Definition(<< <<"put">> >>, <<"put">>, {}))))

GenerateInterfaces == Interfaces \cup {SiblingInterface}

GenerateArgs ==
    { <<>>,
      << <<"scan">> >>,
      << <<"net">> >>,
      << <<"scan">>, <<"list">> >>,
      << <<"scan">>, <<"undefined">> >>,
      << <<"scan">>, <<"list">>, <<"--", "target", "-", "id">>, <<"5">> >>,
      << <<"scan">>, <<"list">>, <<"--", "target", "-", "id">> >>,
      << <<"scan">>, <<"list">>, <<"--", "target">>, <<"5">> >>,
      << <<"scan">>, <<"list">>, <<"--", "target", "_", "id">>, <<"5">> >>,
      << <<"scan">>, <<"list">>, <<"--", "bogus", "-", "flag">> >>,
      << <<"scan">>, <<"list">>, <<"--", "host">>, <<"x">> >>,
      << <<"net">>, <<"sub">>, <<"get">> >>,
      << <<"scan">>, <<"list">>, <<"-h">> >>,
      << <<"scan">>, <<"list">>, <<"-H">>, <<"h1">> >>,
      << <<"-H">>, <<"h1">>, <<"scan">>, <<"list">>, <<"--", "target", "-", "id">>, <<"5">> >>,
      << <<"net">>, <<"sub">> >>,
      << <<"net">>, <<"sub">>, <<"get">>, <<"--", "x">>, <<"1">> >>,
      << <<"net">>, <<"tub">>, <<"put">> >>,
      << <<"net">>, <<"description">> >> }

InitGenerate ==
    /\ MainIdle
    /\ fpc = "call"
    /\ farg \in {[interface |-> i, args |-> a] : i \in GenerateInterfaces, a \in GenerateArgs}
    /\ fres = Err

\* argparser_from_interface(parser, interface); parse_args(parser, args)
CallGenerate ==
    /\ fpc = "call"
    /\ LET p == argparser_from_interface(get_argparser, farg.interface)
       IN  fres' = [parser |-> p,
                    parsed |-> IF p = Err THEN [status |-> "raise", opts |-> Err]
                                ELSE parse_args(p, farg.args, FALSE)]
    /\ fpc' = "ret"
    /\ UNCHANGED <<farg, mvars>>

NextGenerate == CallGenerate

SpecGenerate == InitGenerate /\ [][NextGenerate]_vars

---------------------------------------------------------------------------
(* Properties of the generated command line (SpecGenerate) *)

\* The primary entries of an interface that become subcommands, and those
\* of them that declare functions.
Primaries(i) == DOMAIN i.m \ (INTERFACE_PRIMARY_IGNORE \cup {K_version})
FunctionPrimaries(i) ==
    {p \in Primaries(i) : IsMap(i.m[p]) /\ Truthy(Get(i.m[p].m, K_functions, NoneV))}
\* The listed functions of an entry that have a definition.
DefinedFunctions(entry) ==
    {n \in Elements(entry.m[K_functions].l) : n \in DOMAIN entry.m /\ Truthy(entry.m[n])}
DeclaredInputs(entry, a) == Get(entry.m[a].m, K_input, EmptyMap).m
DeclaredFlag(n) == <<"--">> \o Replace(n, "_", "-")
DeclaredFlags(entry, a) == {DeclaredFlag(n) : n \in DOMAIN DeclaredInputs(entry, a)}

\* The command line names a function primary and one of its actions first.
NamesAction ==
    /\ fpc = "ret" /\ "interface" \in DOMAIN farg /\ fres.parser # Err
    /\ Len(farg.args) >= 2
    /\ farg.args[1] \in FunctionPrimaries(farg.interface)
    /\ farg.args[2] \in DefinedFunctions(farg.interface.m[farg.args[1]])

FlagsAfterAction == {farg.args[i] : i \in {j \in 3..Len(farg.args) : StartsWithDash(farg.args[j])}}

\* One action subcommand per defined function, one flag per declared input
\* with the declared default, and on an accepted command line the value of
\* every input: the one given or the declared default.
GeneratedActions ==
    (fpc = "ret" /\ "interface" \in DOMAIN farg /\ fres.parser # Err) =>
        \A p \in FunctionPrimaries(farg.interface) :
            LET entry == farg.interface.m[p]
                sub == fres.parser.sub.choices[p].sub
            IN  /\ sub.present /\ sub.dest = Dotted(K_api, K_action)
                /\ DOMAIN sub.choices = DefinedFunctions(entry)
                /\ \A a \in DefinedFunctions(entry) :
                      /\ OptionStrings(sub.choices[a]) \ HelpOption.flags
                           = DeclaredFlags(entry, a)
                      /\ \A n \in DOMAIN DeclaredInputs(entry, a) :
                            \E i \in 1..Len(sub.choices[a].options) :
                                /\ sub.choices[a].options[i].flags = {DeclaredFlag(n)}
                                /\ sub.choices[a].options[i].default
                                     = Get(DeclaredInputs(entry, a)[n].m, K_default, NoneV)

SpecExampleAccepted ==
    (/\ fpc = "ret" /\ "interface" \in DOMAIN farg
     /\ farg.interface = SpecExampleInterface) =>
        /\ farg.args = << <<"scan">>, <<"list">>, <<"--", "target", "-", "id">>, <<"5">> >>
             => /\ fres.parsed.status = "ok"
                /\ fres.parsed.opts.m[K_api].m[K_params].m[<<"target", "-", "id">>] = StrV(<<"5">>)
        /\ farg.args = << <<"scan">>, <<"list">> >>
             => /\ fres.parsed.status = "ok"
                /\ fres.parsed.opts.m[K_api].m[K_params].m[<<"target", "-", "id">>] = StrV(<<"0">>)
        /\ farg.args = << <<"scan">>, <<"list">>, <<"--", "bogus", "-", "flag">> >>
             => fres.parsed.status = "error"

\* C11 (as stated): for a primary that declares functions the parser has one
\* action per defined function and one --<dashed-name> flag per declared
\* input with the declared default, and a command line is accepted only
\* when every flag after the action is one of these declared flags.
C11_ExactFlagsOnly ==
    /\ GeneratedActions
    /\ SpecExampleAccepted
    /\ (NamesAction /\ fres.parsed.status = "ok") =>
          FlagsAfterAction \subseteq DeclaredFlags(farg.interface.m[farg.args[1]], farg.args[2])

\* C11 (amended): as above, but a command line is accepted only when every
\* flag after the action is a declared flag or abbreviates exactly one
\* declared flag; -h/--help after the action prints the help and exits with
\* status 0.
C11_FlagsOrAbbreviations ==
    /\ GeneratedActions
    /\ SpecExampleAccepted
    /\ (NamesAction /\ fres.parsed.status = "ok") =>
          \A f \in FlagsAfterAction :
              Cardinality({d \in DeclaredFlags(farg.interface.m[farg.args[1]], farg.args[2]) :
                              IsPrefix(f, d)}) = 1
    /\ (NamesAction /\ \E f \in FlagsAfterAction : f \in HelpOption.flags) =>
          fres.parsed.status = "exit"

\* C11 witness: `scan list --target-id 5` was accepted by the parser
\* generated from the example interface.
C11_Witness ==
    /\ NamesAction
    /\ farg.interface = SpecExampleInterface
    /\ farg.args = << <<"scan">>, <<"list">>, <<"--", "target", "-", "id">>, <<"5">> >>
    /\ fres.parsed.status = "ok"

---------------------------------------------------------------------------
(* becmd/api.py: the Endpoint object on its own *)

\* urllib.parse.quote_plus on the atoms that need quoting.
quote_plus(str) ==
    [i \in 1..Len(str) |->
        CASE str[i] = " " -> "+"
          [] str[i] = "&" -> "%26"
          [] str[i] = "=" -> "%3D"
          [] OTHER -> str[i]]

\* The six components with the scheme fixed to https.
EndpointIterHttps(ep, order) ==
    LET function == [k \in {r \in {K_action, K_primary, K_secondary} : Truthy(ep[r[1]])}
                       |-> ep[k[1]]]
        query == DictUpdate(DictUpdate(K_apikey :> ep.host.m[K_api_key], function), ep.params)
        keys == <<K_apikey>> \o order \o SetToSeq(DOMAIN query \ ({K_apikey} \cup DOMAIN function))
        pair(i) == quote_plus(keys[i]) \o <<"=">> \o quote_plus(query[keys[i]].v)
        RECURSIVE Join(_)
        Join(i) == IF i > Len(keys) THEN <<>>
                   ELSE pair(i) \o (IF i < Len(keys) THEN <<"&">> ELSE <<>>) \o Join(i + 1)
    IN  << <<"https">>, Get(ep.host.m, K_host, StrV(<<>>)).v, <<"/json.cgi">>, <<>>,
           Join(1), <<>> >>

\* Endpoint.__iter__: scheme, netloc, path, params, query, fragment.  The
\* query is urlencode of the dict {'apikey': ..., **function, **_params},
\* in which a later key replaces an earlier one; `order` is the order in
\* which the set _RESERVED yields the keys of `function`.
EndpointIter(ep, order) ==
    LET function == [k \in {r \in {K_action, K_primary, K_secondary} : Truthy(ep[r[1]])}
                       |-> ep[k[1]]]
        query == DictUpdate(DictUpdate(K_apikey :> ep.host.m[K_api_key], function), ep.params)
        keys == <<K_apikey>> \o order \o SetToSeq(DOMAIN query \ ({K_apikey} \cup DOMAIN function))
        pair(i) == quote_plus(keys[i]) \o <<"=">> \o quote_plus(query[keys[i]].v)
        RECURSIVE Join(_)
        Join(i) == IF i > Len(keys) THEN <<>>
                   ELSE pair(i) \o (IF i < Len(keys) THEN <<"&">> ELSE <<>>) \o Join(i + 1)
    IN  << IF Truthy(Get(ep.host.m, K_use_https, NoneV)) THEN <<"https">> ELSE <<"http">>,
           Get(ep.host.m, K_host, StrV(<<>>)).v, <<"/json.cgi">>, <<>>,
           Join(1), <<>> >>

\* Endpoint.__str__: urllib.parse.urlunparse of the six components.
EndpointStr(ep, order) ==
    LET c == EndpointIter(ep, order)
    IN  c[1] \o <<"://">> \o c[2] \o c[3]
          \o (IF c[5] # <<>> THEN <<"?">> \o c[5] ELSE <<>>)

\* Endpoint.fetch with the keys 'result' and 'data' tried in the other order.
fetchResultFirst(ep, data) ==
    IF data = Err \/ ~IsMap(data) THEN Err
    ELSE IF <<"result">> \in DOMAIN data.m THEN data.m[<<"result">>]
    ELSE IF <<"data">> \in DOMAIN data.m THEN data.m[<<"data">>]
    ELSE data

\* Endpoint.fetch on the response `data` of becmd.net.get (Err: the
\* request raised NetworkError).  A base64 text is "b64" followed by the
\* encoded bytes, a zlib stream "zlib" followed by the compressed bytes;
\* b64decode and decompress raise on anything else.
fetch(ep, data) ==
    LET b64decode(x) == IF x.t = "str" /\ x.v # <<>> /\ Head(x.v) = "b64"
                        THEN [t |-> "bytes", v |-> Tail(x.v)] ELSE Err
        decompress(x) == IF x # Err /\ x.v # <<>> /\ Head(x.v) = "zlib"
                         THEN [t |-> "bytes", v |-> Tail(x.v)] ELSE Err
    IN  IF data = Err \/ ~IsMap(data) THEN Err
        ELSE IF <<"data">> \in DOMAIN data.m THEN data.m[<<"data">>]
        ELSE IF <<"result">> \in DOMAIN data.m THEN data.m[<<"result">>]
        ELSE IF <<"compresseddata">> \in DOMAIN data.m
        THEN decompress(b64decode(data.m[<<"compresseddata">>]))
        ELSE data

\* The hosts, constructor keywords, parameter keys and values, and
\* responses the Endpoint object is exercised with.  Names are non-empty
\* strings, as the command line produces them.
EndpointInputs ==
    LET hostOf(f) == Map(f @@ (K_api_key :> StrV(<<"k", "&", "y">>))
                           @@ (K_timeout :> FloatV(<<"5.0">>))
                           @@ (K_insecure_tls :> BoolV(FALSE)))
        fields == (<<"data">> :> StrV(<<"d">>))
                    @@ (<<"result">> :> Map(<<"n">> :> StrV(<<"1">>)))
                    @@ (<<"compresseddata">> :> StrV(<<"b64", "zlib", "p">>))
                    @@ (<<"other">> :> StrV(<<"o">>))
        values == {StrV(<<"1">>), StrV(<<"x", " ", "&", "y">>)}
        fixed == {(K_primary :> StrV(<<"scan">>)) @@ f :
                    f \in {EmptyFn, K_secondary :> StrV(<<"sub">>), K_action :> StrV(<<"list">>),
                           (K_secondary :> StrV(<<"sub">>)) @@ (K_action :> StrV(<<"list">>))}}
    IN  [hosts |-> {hostOf((K_host :> StrV(<<"h1">>)) @@ (K_use_https :> BoolV(TRUE))),
                    hostOf((K_host :> StrV(<<"h1">>)) @@ (K_use_https :> BoolV(FALSE))),
                    hostOf(EmptyFn)},
         keys |-> {<<"a">>, <<"target", "-", "id">>, K_apikey, K_primary, K_secondary,
                   K_action},
         values |-> values,
         kwargs |-> fixed \cup {K_action :> StrV(<<"list">>)}
                      \cup {f @@ (k :> StrV(<<"1">>)) :
                              f \in fixed, k \in {<<"a">>, K_apikey}},
         responses |-> {Map(Restrict(fields, ks)) : ks \in SUBSET DOMAIN fields}
                         \cup {Map(<<"compresseddata">> :> StrV(<<"!", "p">>)),
                               Map(<<"compresseddata">> :> StrV(<<"b64", "p">>)),
                               ListV(<< <<"d">> >>), Err}]

\* Endpoint.__len__
EndpointLen(ep) == Cardinality(DOMAIN ep.params)

InitEndpoint ==
    /\ MainIdle
    /\ fpc = "new"
    /\ farg = [op |-> "none"]
    /\ fres = NoneV

\* Endpoint(host, **kwargs)
NewEndpoint ==
    /\ fpc = "new"
    /\ \E h \in EndpointInputs.hosts, kwargs \in EndpointInputs.kwargs :
         LET ep == Endpoint(h, kwargs)
         IN  /\ farg' = [op |-> "new", kwargs |-> kwargs, raised |-> ep = Err]
             /\ fres' = IF ep = Err THEN fres ELSE ep
             /\ fpc' = IF ep = Err THEN "new" ELSE "live"
    /\ UNCHANGED mvars

\* endpoint[key] = value
SetItemOp ==
    /\ fpc = "live"
    /\ \E key \in EndpointInputs.keys, value \in EndpointInputs.values :
         LET ep == SetItem(fres, key, value)
         IN  /\ farg' = [op |-> "set", key |-> key, raised |-> ep = Err, before |-> fres]
             /\ fres' = IF ep = Err THEN fres ELSE ep
    /\ UNCHANGED <<fpc, mvars>>

\* del endpoint[key]: KeyError for a key that is not stored.
DelItemOp ==
    /\ fpc = "live"
    /\ \E key \in EndpointInputs.keys :
         /\ farg' = [op |-> "del", key |-> key, raised |-> key \notin DOMAIN fres.params,
                     before |-> fres]
         /\ fres' = [fres EXCEPT !.params = [k \in DOMAIN fres.params \ {key} |->
                                               fres.params[k]]]
    /\ UNCHANGED <<fpc, mvars>>

\* endpoint.update(((k1, value), (k2, value))): MutableMapping.update
\* assigns the items one after the other through __setitem__.
UpdateOp ==
    /\ fpc = "live"
    /\ \E k1, k2 \in EndpointInputs.keys, value \in EndpointInputs.values :
         LET e1 == SetItem(fres, k1, value)
             e2 == IF e1 = Err THEN Err ELSE SetItem(e1, k2, value)
         IN  /\ farg' = [op |-> "update", keys |-> <<k1, k2>>, raised |-> e2 = Err,
                         before |-> fres]
             /\ fres' = IF e1 = Err THEN fres ELSE IF e2 = Err THEN e1 ELSE e2
    /\ UNCHANGED <<fpc, mvars>>

\* str(endpoint)
StrOp ==
    /\ fpc = "live"
    /\ \E order \in {o \in UNION {[1..n -> {K_action, K_primary, K_secondary}] : n \in 0..3} :
                       /\ Elements(o) = {r \in {K_action, K_primary, K_secondary} :
                                           Truthy(fres[r[1]])}
                       /\ Len(o) = Cardinality(Elements(o))} :
         farg' = [op |-> "str", out |-> StrV(EndpointStr(fres, order))]
    /\ UNCHANGED <<fpc, fres, mvars>>

\* endpoint.fetch()
FetchOp ==
    /\ fpc = "live"
    /\ \E data \in EndpointInputs.responses :
         farg' = [op |-> "fetch", request |-> Request(fres, fres.host), response |-> data,
                  out |-> fetch(fres, data)]
    /\ UNCHANGED <<fpc, fres, mvars>>

NextEndpoint ==
    \/ NewEndpoint
    \/ SetItemOp
    \/ DelItemOp
    \/ UpdateOp
    \/ StrOp
    \/ FetchOp

SpecEndpoint == InitEndpoint /\ [][NextEndpoint]_vars

---------------------------------------------------------------------------
(* Properties of the Endpoint object (SpecEndpoint) *)

Serialised == fpc = "live" /\ "op" \in DOMAIN farg /\ farg.op = "str"

\* The position of the first atom `a` of a string.
Index(str, a) == CHOOSE i \in 1..Len(str) : str[i] = a /\ \A j \in 1..(i - 1) : str[j] # a

\* The key=value pairs of the query of a URL, as a sequence.
QueryPairs(url) ==
    LET query == SubSeq(url, Index(url, "?") + 1, Len(url))
        parts == Split(query, "&")
    IN  [i \in 1..Len(parts) |-> Split(parts[i], "=")]

\* The pairs the query has to hold: the API key of the host, those of
\* primary, secondary and action that are set, and the extra parameters.
ExpectedPairs(ep) ==
    {<<K_apikey, quote_plus(ep.host.m[K_api_key].v)>>}
      \cup {<<k, quote_plus(ep[k[1]].v)>> :
              k \in {r \in {K_primary, K_secondary, K_action} : ep[r[1]] # NoneV}}
      \cup {<<quote_plus(k), quote_plus(ep.params[k].v)>> : k \in DOMAIN ep.params}

\* C12: the URL of an endpoint has the scheme https when use_https of the
\* host is true and http otherwise, the host as network location, the path
\* /json.cgi, and a query that holds exactly apikey=<api_key of the host>,
\* the set ones of primary, secondary and action, and every extra
\* parameter, each key once: no extra parameter replaces a fixed one.
C12_UrlSerialisation ==
    Serialised =>
        LET url == farg.out.v
            h == fres.host.m
            netloc == Get(h, K_host, StrV(<<>>)).v
            pairs == QueryPairs(url)
        IN  /\ url[1] = IF K_use_https \in DOMAIN h /\ h[K_use_https] = BoolV(TRUE)
                        THEN "https" ELSE "http"
            /\ url[2] = "://"
            /\ SubSeq(url, 3, 2 + Len(netloc)) = netloc
            /\ url[3 + Len(netloc)] = "/json.cgi"
            /\ Index(url, "?") = 4 + Len(netloc)
            /\ Elements(pairs) = ExpectedPairs(fres)
            /\ Len(pairs) = Cardinality(ExpectedPairs(fres))
            /\ \A i \in 1..Len(pairs) :
                  pairs[i][1] = K_apikey => pairs[i][2] = quote_plus(h[K_api_key].v)

\* C12 witness: an http endpoint with a secondary, an action and an extra
\* parameter was serialised.
C12_Witness ==
    /\ Serialised
    /\ K_host \in DOMAIN fres.host.m
    /\ fres.host.m[K_use_https] = BoolV(FALSE)
    /\ fres.secondary # NoneV /\ fres.action # NoneV
    /\ DOMAIN fres.params = {<<"target", "-", "id">>}

---------------------------------------------------------------------------
(* Further properties of main() (Spec) *)

Given(flags) == \E i \in 1..Len(argv) : argv[i] \in flags

\* C13: the cache is set up after the host is resolved and before the
\* interface is fetched; it is installed exactly when use_cache of the
\* resolved host is true, so never with -X/--no-cache, and its entries are
\* cleared exactly when it is installed and -R/--refresh was given
\* (otherwise the expired entries are removed).
C13_CacheSetup ==
    /\ (~HostResolved \/ pc \in {"host", "cache"}) =>
          cache = NoCache /\ netCalls = <<>>
    /\ (HostResolved /\ pc \notin {"host", "cache"}) =>
          /\ cache.installed = (host.m[K_use_cache] = BoolV(TRUE))
          /\ Given({<<"-X">>, <<"--", "no", "-", "cache">>}) => ~cache.installed
          /\ cache.cleared = (cache.installed /\ Given({<<"-R">>, <<"--", "refresh">>}))

\* C13 witness: a run with -R fetched the interface with the cache
\* installed and cleared.
C13_Witness ==
    /\ HostResolved /\ netCalls # <<>>
    /\ Given({<<"-R">>})
    /\ cache.installed /\ cache.cleared

\* The second pass accepted the command line: the interface was fetched,
\* the parser was extended with it, and the strict parse succeeds.
Pass2Accepts ==
    /\ iface # NoneV /\ parser.sub.present
    /\ parse_args(parser, argv, FALSE).status = "ok"

\* C14: a run in which the configuration and the host validate, a default
\* host is resolved, the interface is fetched and the second pass accepts
\* the command line ends normally with exit status 0, also when the command
\* line selects no primary.
C14_AcceptedRunsExitZero ==
    (pc \in {"done", "exit"} /\ Pass2Accepts) => (pc = "done" /\ exitCode = 0)

\* The entry of the interface whose action the command line selected.
SelectedEntry ==
    LET api == opts.m[K_api].m
        primary == iface.m[api[K_primary].v]
    IN  IF K_secondary \in DOMAIN api THEN primary.m[api[K_secondary].v] ELSE primary

\* The argument that follows the flag of the declared input n, NoneV when
\* the flag is not on the command line.
GivenValue(n) ==
    IF \E i \in 1..(Len(argv) - 1) : argv[i] = DeclaredFlag(n)
    THEN StrV(argv[(CHOOSE i \in 1..(Len(argv) - 1) : argv[i] = DeclaredFlag(n)) + 1])
    ELSE NoneV

\* C18: a value given through the generated flag of a declared input n is
\* the extra parameter n of the built endpoint and n=<value> is in its
\* query; an input without declared default that is not given is no
\* parameter of the endpoint.  (Inputs with a reserved name are left to C6.)
C18_DeclaredNameReachesQuery ==
    (pc = "done" /\ ActionSelected(opts)) =>
        LET inputs == DeclaredInputs(SelectedEntry, opts.m[K_api].m[K_action].v)
            url == EndpointStr(endpoint,
                               SetToSeq({r \in {K_action, K_primary, K_secondary} :
                                           Truthy(endpoint[r[1]])}))
        IN  \A n \in DOMAIN inputs \ _RESERVED :
                /\ GivenValue(n) # NoneV =>
                      /\ n \in DOMAIN endpoint.params
                      /\ endpoint.params[n] = GivenValue(n)
                      /\ <<n, quote_plus(GivenValue(n).v)>> \in Elements(QueryPairs(url))
                /\ (GivenValue(n) = NoneV /\ K_default \notin DOMAIN inputs[n].m) =>
                      /\ n \notin DOMAIN endpoint.params
                      /\ Replace(n, "_", "-") \notin DOMAIN endpoint.params

---------------------------------------------------------------------------
(* Further properties of the generated command line (SpecGenerate) *)

\* C15: for a primary entry without functions argparser_from_interface
\* completes without error and creates one secondary subcommand per nested
\* secondary entry, each with the actions of that entry; a description of
\* the primary is help text and no subcommand.
C15_SecondariesGenerated ==
    (fpc = "ret" /\ "interface" \in DOMAIN farg) =>
        \A p \in Primaries(farg.interface) \ FunctionPrimaries(farg.interface) :
            LET entry == farg.interface.m[p]
                secondaries == DOMAIN entry.m \ {K_description}
            IN  /\ fres.parser # Err
                /\ fres.parser.sub.choices[p].sub.present
                /\ fres.parser.sub.choices[p].sub.dest = Dotted(K_api, K_secondary)
                /\ DOMAIN fres.parser.sub.choices[p].sub.choices = secondaries
                /\ \A n \in secondaries :
                      LET actions == fres.parser.sub.choices[p].sub.choices[n].sub
                      IN  /\ actions.present /\ actions.dest = Dotted(K_api, K_action)
                          /\ DOMAIN actions.choices = DefinedFunctions(entry.m[n])

---------------------------------------------------------------------------
(* Further properties of the Endpoint object (SpecEndpoint) *)

Fetched == fpc = "live" /\ "op" \in DOMAIN farg /\ farg.op = "fetch"

\* C16: fetch returns the value under `data` when the response has that
\* key, else the value under `result`, else the base64-decoded and
\* decompressed value of `compresseddata`, and the response itself when it
\* has none of the three keys.
C16_FetchUnwrap ==
    (Fetched /\ IsMap(farg.response)) =>
        LET r == farg.response.m
        IN  IF <<"data">> \in DOMAIN r THEN farg.out = r[<<"data">>]
            ELSE IF <<"result">> \in DOMAIN r THEN farg.out = r[<<"result">>]
            ELSE IF <<"compresseddata">> \in DOMAIN r
            THEN LET blob == r[<<"compresseddata">>].v
                 IN  (Len(blob) >= 2 /\ blob[1] = "b64" /\ blob[2] = "zlib") =>
                        farg.out = [t |-> "bytes", v |-> SubSeq(blob, 3, Len(blob))]
            ELSE farg.out = farg.response

\* C16 witness: a response with `compresseddata` and `other` only was
\* unwrapped to the decompressed bytes.
C16_Witness ==
    /\ Fetched /\ IsMap(farg.response)
    /\ DOMAIN farg.response.m = {<<"compresseddata">>, <<"other">>}
    /\ farg.out = [t |-> "bytes", v |-> <<"p">>]

Operated(op) == fpc = "live" /\ "op" \in DOMAIN farg /\ farg.op = op

\* C17: the stored parameter keys are never reserved names and len() is
\* their number; an assignment of a reserved key raises and changes
\* nothing, any other assignment stores the key; an update changes neither
\* primary, secondary nor action.
C17_ReservedNeverStored ==
    fpc = "live" =>
        /\ DOMAIN fres.params \cap _RESERVED = {}
        /\ EndpointLen(fres) = Cardinality(DOMAIN fres.params)
        /\ Operated("set") =>
              IF farg.key \in _RESERVED THEN farg.raised /\ fres = farg.before
              ELSE /\ ~farg.raised /\ farg.key \in DOMAIN fres.params
                   /\ EndpointLen(fres) = EndpointLen(farg.before)
                        + (IF farg.key \in DOMAIN farg.before.params THEN 0 ELSE 1)
        /\ Operated("del") =>
              EndpointLen(fres) = EndpointLen(farg.before) - (IF farg.raised THEN 0 ELSE 1)
        /\ Operated("update") =>
              /\ farg.raised = (\E i \in 1..2 : farg.keys[i] \in _RESERVED)
              /\ fres.primary = farg.before.primary
              /\ fres.secondary = farg.before.secondary
              /\ fres.action = farg.before.action

\* C17 witness: the assignment of a reserved key to an endpoint that holds
\* a parameter raised.
C17_Witness ==
    /\ Operated("set") /\ farg.key \in _RESERVED /\ farg.raised
    /\ DOMAIN fres.params # {}

====
